---- MODULE Spec2Model ----
(***************************************************************************)
(* Model of the websocket fan-out engine of sm-chat                        *)
(* (src/app/routers/chat.py): one server process with its                  *)
(* ConnectionManager, the chat_endpoint handler of every websocket, the    *)
(* listen_to_redis task of every occupied room, the message store and the  *)
(* redis publish/subscribe broker.  One action is one stretch of code      *)
(* between two awaits of the asyncio event loop.                           *)
(***************************************************************************)
EXTENDS Integers, Sequences, FiniteSets, TLC

\* ---------------------------------------------------------------- bounds
MaxConn == 2        \* websockets that ever attempt the handshake
NumRooms == 2       \* distinct chat ids
MaxFrames == 2      \* client frames received over the whole run
NumContents == 1    \* distinct frame texts

\* ------------------------------------------------------ program constants
PolicyViolation == 1008
DefaultCloseCode == 1000

Conns == 1..MaxConn
Rooms == 1..NumRooms
Contents == 1..NumContents
TaskIds == 1..MaxConn   \* connect creates at most one task per websocket

VARIABLES
    pc,           \* pc[c]: where the chat_endpoint handler of websocket c stands
    chat,         \* chat[c]: the chat_id of the path of websocket c (0: not started)
    closeCode,    \* closeCode[c]: code of websocket.close() (0: not closed by the handshake)
    open,         \* open[c]: the transport of c is accepted and not closed
    draft,        \* draft[c]: the Message object the ingress loop is working on
    frames,       \* number of frames received so far
    rooms,        \* ConnectionManager.rooms: chat_id -> set of websockets
    redis_tasks,  \* ConnectionManager.redis_tasks: chat_id -> task
    tasks,        \* the listen_to_redis tasks created so far
    subs,         \* broker subscriptions opened and never unsubscribed
    store,        \* committed Message rows, in commit order
    channel,      \* channel[r]: payloads published on chat_channel:r, in order
    received      \* received[c]: payloads send_text delivered to c, in order

vars == <<pc, chat, closeCode, open, draft, frames, rooms, redis_tasks,
          tasks, subs, store, channel, received>>

\* ------------------------------------------------------------ dictionaries
DictSet(d, k, v) == [x \in DOMAIN d \cup {k} |-> IF x = k THEN v ELSE d[x]]

DictDel(d, k) == [x \in DOMAIN d \ {k} |-> d[x]]

Range(s) == {s[i] : i \in DOMAIN s}

\* ---------------------------------------------------------------- values
NoMsg == [id |-> 0, sender |-> 0, content |-> 0]

\* a listen_to_redis task right after asyncio.create_task
NewTask(r) ==
    [room |-> r, st |-> "created", inbox |-> <<>>, msg |-> NoMsg,
     used |-> 0, snap |-> {}, visited |-> {}, cur |-> 0]

\* a task that has finished: nothing of its frame is left
Finished(t, how) ==
    [room |-> t.room, st |-> how, inbox |-> <<>>, msg |-> NoMsg,
     used |-> 0, snap |-> {}, visited |-> {}, cur |-> 0]

\* a task that went back to waiting on pubsub.listen()
Listening(t, q) ==
    [room |-> t.room, st |-> "listening", inbox |-> q, msg |-> NoMsg,
     used |-> 0, snap |-> {}, visited |-> {}, cur |-> 0]

Pending == {"created", "listening", "sending"}
Subscribed == {"listening", "sending"}

EpSub(c) == <<"endpoint", c>>
TaskSub(t) == <<"listener", t>>

Init ==
    /\ pc = [c \in Conns |-> "idle"]
    /\ chat = [c \in Conns |-> 0]
    /\ closeCode = [c \in Conns |-> 0]
    /\ open = [c \in Conns |-> FALSE]
    /\ draft = [c \in Conns |-> NoMsg]
    /\ frames = 0
    /\ rooms = << >>
    /\ redis_tasks = << >>
    /\ tasks = << >>
    /\ subs = {}
    /\ store = << >>
    /\ channel = [r \in Rooms |-> << >>]
    /\ received = [c \in Conns |-> << >>]

\* ------------------------------------------------------ ConnectionManager
\* Cancel with the call to Task.cancel() left out
Cancel_noop(ts, t) == ts

\* Task.cancel(): a pending task ends with CancelledError, a finished one is left alone
Cancel(ts, t) ==
    IF ts[t].st \in Pending
    THEN [ts EXCEPT ![t] = Finished(@, "cancelled")]
    ELSE ts

\* ------------------------------------------------------------- handshake
\* websockets are numbered in the order in which their handshake begins
Fresh(c) == pc[c] = "idle" /\ \A d \in Conns : d < c => pc[d] # "idle"

\* chat ids are interchangeable: a handshake names a chat id already named
\* or the smallest one not named so far
Nameable == {r \in Rooms : \A q \in Rooms : q < r => \E d \in Conns : chat[d] = q}

\* no token, or verify_token raises HTTPException: close(code=1008), return
RejectToken(c) ==
    /\ Fresh(c)
    /\ \E r \in Nameable : chat' = [chat EXCEPT ![c] = r]
    /\ pc' = [pc EXCEPT ![c] = "rejected"]
    /\ closeCode' = [closeCode EXCEPT ![c] = PolicyViolation]
    /\ UNCHANGED <<open, draft, frames, rooms, redis_tasks, tasks, subs,
                   store, channel, received>>

\* a valid token: the endpoint opens its own pubsub and subscribes to
\* chat_channel:chat_id before the membership has been looked up
Subscribe(c) ==
    /\ Fresh(c)
    /\ \E r \in Nameable : chat' = [chat EXCEPT ![c] = r]
    /\ subs' = subs \cup {EpSub(c)}
    /\ pc' = [pc EXCEPT ![c] = "authz"]
    /\ UNCHANGED <<closeCode, open, draft, frames, rooms, redis_tasks, tasks,
                   store, channel, received>>

\* user unknown or chat_id not among the user's chats: close(), return
RejectMember(c) ==
    /\ pc[c] = "authz"
    /\ pc' = [pc EXCEPT ![c] = "rejected"]
    /\ closeCode' = [closeCode EXCEPT ![c] = DefaultCloseCode]
    /\ UNCHANGED <<chat, open, draft, frames, rooms, redis_tasks, tasks, subs,
                   store, channel, received>>

\* ConnectionManager.connect: accept, add to the room's set, start the
\* room's listener when redis_tasks has none
connect(c) ==
    /\ pc[c] = "authz"
    /\ LET r == chat[c]
           old == IF r \in DOMAIN rooms THEN rooms[r] ELSE {}
       IN  /\ rooms' = DictSet(rooms, r, old \cup {c})
           /\ IF r \notin DOMAIN redis_tasks
              THEN /\ tasks' = Append(tasks, NewTask(r))
                   /\ redis_tasks' = DictSet(redis_tasks, r, Len(tasks) + 1)
              ELSE UNCHANGED <<tasks, redis_tasks>>
    /\ open' = [open EXCEPT ![c] = TRUE]
    /\ pc' = [pc EXCEPT ![c] = "recv"]
    /\ UNCHANGED <<chat, closeCode, draft, frames, subs, store, channel, received>>

\* disconnect without the test for the emptied room: every disconnect
\* cancels the room's listener and deletes its redis_tasks entry
disconnect_always_cancels(r, c) ==
    IF r \notin DOMAIN rooms
    THEN [rooms |-> rooms, redis_tasks |-> redis_tasks, tasks |-> tasks, raised |-> FALSE]
    ELSE LET left == IF rooms[r] \ {c} # {}
                     THEN [rooms EXCEPT ![r] = @ \ {c}]
                     ELSE DictDel(rooms, r)
         IN  IF r \notin DOMAIN redis_tasks
             THEN [rooms |-> left, redis_tasks |-> redis_tasks, tasks |-> tasks,
                   raised |-> TRUE]
             ELSE [rooms |-> left, redis_tasks |-> DictDel(redis_tasks, r),
                   tasks |-> Cancel(tasks, redis_tasks[r]), raised |-> FALSE]

\* disconnect with "del self.redis_tasks[chat_id]" left out
disconnect_keeps_task(r, c) ==
    IF r \notin DOMAIN rooms
    THEN [rooms |-> rooms, redis_tasks |-> redis_tasks, tasks |-> tasks, raised |-> FALSE]
    ELSE IF rooms[r] \ {c} # {}
    THEN [rooms |-> [rooms EXCEPT ![r] = @ \ {c}], redis_tasks |-> redis_tasks,
          tasks |-> tasks, raised |-> FALSE]
    ELSE IF r \notin DOMAIN redis_tasks
    THEN [rooms |-> DictDel(rooms, r), redis_tasks |-> redis_tasks,
          tasks |-> tasks, raised |-> TRUE]
    ELSE [rooms |-> DictDel(rooms, r), redis_tasks |-> redis_tasks,
          tasks |-> Cancel(tasks, redis_tasks[r]), raised |-> FALSE]

\* disconnect with set.remove in place of set.discard: a websocket that is
\* not in the room's set raises KeyError
disconnect_remove(r, c) ==
    IF r \notin DOMAIN rooms
    THEN [rooms |-> rooms, redis_tasks |-> redis_tasks, tasks |-> tasks, raised |-> FALSE]
    ELSE IF c \notin rooms[r]
    THEN [rooms |-> rooms, redis_tasks |-> redis_tasks, tasks |-> tasks, raised |-> TRUE]
    ELSE IF rooms[r] \ {c} # {}
    THEN [rooms |-> [rooms EXCEPT ![r] = @ \ {c}], redis_tasks |-> redis_tasks,
          tasks |-> tasks, raised |-> FALSE]
    ELSE IF r \notin DOMAIN redis_tasks
    THEN [rooms |-> DictDel(rooms, r), redis_tasks |-> redis_tasks,
          tasks |-> tasks, raised |-> TRUE]
    ELSE [rooms |-> DictDel(rooms, r), redis_tasks |-> DictDel(redis_tasks, r),
          tasks |-> Cancel(tasks, redis_tasks[r]), raised |-> FALSE]

\* ConnectionManager.disconnect as a function of the manager's state: the
\* new <<rooms, redis_tasks, tasks>> and whether redis_tasks[chat_id] raised
disconnect(r, c) ==
    IF r \notin DOMAIN rooms
    THEN [rooms |-> rooms, redis_tasks |-> redis_tasks, tasks |-> tasks, raised |-> FALSE]
    ELSE IF rooms[r] \ {c} # {}
    THEN [rooms |-> [rooms EXCEPT ![r] = @ \ {c}], redis_tasks |-> redis_tasks,
          tasks |-> tasks, raised |-> FALSE]
    ELSE IF r \notin DOMAIN redis_tasks
    THEN [rooms |-> DictDel(rooms, r), redis_tasks |-> redis_tasks,
          tasks |-> tasks, raised |-> TRUE]
    ELSE [rooms |-> DictDel(rooms, r), redis_tasks |-> DictDel(redis_tasks, r),
          tasks |-> Cancel(tasks, redis_tasks[r]), raised |-> FALSE]

\* ------------------------------------------------------------ ingress loop
\* the client closes its side of an accepted websocket
ClientClose(c) ==
    /\ pc[c] \in {"recv", "commit", "publish"}
    /\ open[c]
    /\ open' = [open EXCEPT ![c] = FALSE]
    /\ UNCHANGED <<pc, chat, closeCode, draft, frames, rooms, redis_tasks,
                   tasks, subs, store, channel, received>>

\* receive_text returns a frame: Message(chat_id, sender, content), db.add
Receive(c) ==
    /\ pc[c] = "recv"
    /\ open[c]
    /\ frames < MaxFrames
    /\ frames' = frames + 1
    /\ \E x \in Contents :
          draft' = [draft EXCEPT ![c] = [id |-> 0, sender |-> c, content |-> x]]
    /\ pc' = [pc EXCEPT ![c] = "commit"]
    /\ UNCHANGED <<chat, closeCode, open, rooms, redis_tasks, tasks, subs,
                   store, channel, received>>

\* receive_text raises WebSocketDisconnect: except clause, manager.disconnect
Disconnect(c) ==
    /\ pc[c] = "recv"
    /\ ~open[c]
    /\ LET d == disconnect(chat[c], c)
       IN  /\ rooms' = d.rooms
           /\ redis_tasks' = d.redis_tasks
           /\ tasks' = d.tasks
           /\ pc' = [pc EXCEPT ![c] = IF d.raised THEN "err_key" ELSE "closed"]
    /\ UNCHANGED <<chat, closeCode, open, draft, frames, subs, store, channel,
                   received>>

\* db.commit succeeds: the row gets its id, the payload is built from it
CommitOk(c) ==
    /\ pc[c] = "commit"
    /\ LET m == [draft[c] EXCEPT !.id = Len(store) + 1]
       IN  /\ store' = Append(store, m)
           /\ draft' = [draft EXCEPT ![c] = m]
    /\ pc' = [pc EXCEPT ![c] = "publish"]
    /\ UNCHANGED <<chat, closeCode, open, frames, rooms, redis_tasks, tasks,
                   subs, channel, received>>

\* an exception other than WebSocketDisconnect leaves the try block
\* uncaught: the handler ends there and the server drops the transport
Abort(c, how) ==
    /\ pc' = [pc EXCEPT ![c] = how]
    /\ open' = [open EXCEPT ![c] = FALSE]
    /\ draft' = [draft EXCEPT ![c] = NoMsg]

\* CommitFail with the exception swallowed: the loop goes on to publish the
\* row that was never stored
CommitFail_swallowed(c) ==
    /\ pc[c] = "commit"
    /\ pc' = [pc EXCEPT ![c] = "publish"]
    /\ UNCHANGED <<chat, closeCode, open, draft, frames, rooms, redis_tasks,
                   tasks, subs, store, channel, received>>

\* db.commit raises: nothing is stored, the exception leaves the handler
CommitFail(c) ==
    /\ pc[c] = "commit"
    /\ Abort(c, "err_commit")
    /\ UNCHANGED <<chat, closeCode, frames, rooms, redis_tasks, tasks, subs,
                   store, channel, received>>

\* what redis delivers of a publish on chat_channel:r: a copy to every
\* listener that is subscribed at that moment, nothing to anybody else
Deliver(ts, r, m) ==
    [t \in DOMAIN ts |->
        IF ts[t].room = r /\ ts[t].st \in Subscribed
        THEN [ts[t] EXCEPT !.inbox = Append(@, m)]
        ELSE ts[t]]

\* PublishOk that publishes the payload a second time
PublishOk_twice(c) ==
    /\ pc[c] = "publish"
    /\ channel' = [channel EXCEPT ![chat[c]] = Append(Append(@, draft[c]), draft[c])]
    /\ tasks' = Deliver(Deliver(tasks, chat[c], draft[c]), chat[c], draft[c])
    /\ draft' = [draft EXCEPT ![c] = NoMsg]
    /\ pc' = [pc EXCEPT ![c] = "recv"]
    /\ UNCHANGED <<chat, closeCode, open, frames, rooms, redis_tasks, subs,
                   store, received>>

\* redis.publish(chat_channel:chat_id, json.dumps(payload)) returns
PublishOk(c) ==
    /\ pc[c] = "publish"
    /\ channel' = [channel EXCEPT ![chat[c]] = Append(@, draft[c])]
    /\ tasks' = Deliver(tasks, chat[c], draft[c])
    /\ draft' = [draft EXCEPT ![c] = NoMsg]
    /\ pc' = [pc EXCEPT ![c] = "recv"]
    /\ UNCHANGED <<chat, closeCode, open, frames, rooms, redis_tasks, subs,
                   store, received>>

\* redis.publish raises: the exception leaves the handler
PublishFail(c) ==
    /\ pc[c] = "publish"
    /\ Abort(c, "err_publish")
    /\ UNCHANGED <<chat, closeCode, frames, rooms, redis_tasks, tasks, subs,
                   store, channel, received>>

\* the handler's task is cancelled at one of its awaits: CancelledError is
\* not a WebSocketDisconnect either
HandlerCancelled(c) ==
    /\ pc[c] \in {"recv", "commit", "publish"}
    /\ Abort(c, "cancelled")
    /\ UNCHANGED <<chat, closeCode, frames, rooms, redis_tasks, tasks, subs,
                   store, channel, received>>

\* --------------------------------------------------------- listen_to_redis
\* from_url, pubsub(), subscribe(chat_channel:chat_id) have returned
ListenerSubscribe(t) ==
    /\ t \in DOMAIN tasks
    /\ tasks[t].st = "created"
    /\ tasks' = [tasks EXCEPT ![t] = Listening(@, <<>>)]
    /\ subs' = subs \cup {TaskSub(t)}
    /\ UNCHANGED <<pc, chat, closeCode, open, draft, frames, rooms, redis_tasks,
                   store, channel, received>>

\* the connection to redis fails in from_url, subscribe or listen: the
\* exception ends the task, redis_tasks keeps the finished task
ListenerBrokerError(t) ==
    /\ t \in DOMAIN tasks
    /\ tasks[t].st \in {"created", "listening"}
    /\ tasks' = [tasks EXCEPT ![t] = Finished(@, "err_broker")]
    /\ UNCHANGED <<pc, chat, closeCode, open, draft, frames, rooms, redis_tasks,
                   subs, store, channel, received>>

\* pubsub.listen() yields a message: broadcast looks the room up, takes an
\* iterator on the room's live set and awaits send_text on its first element
BroadcastBegin(t) ==
    /\ t \in DOMAIN tasks
    /\ tasks[t].st = "listening"
    /\ tasks[t].inbox # <<>>
    /\ LET r == tasks[t].room
           m == Head(tasks[t].inbox)
           q == Tail(tasks[t].inbox)
       IN  IF r \notin DOMAIN rooms
           THEN tasks' = [tasks EXCEPT ![t] = Listening(@, q)]
           ELSE \E c \in rooms[r] :
                   tasks' = [tasks EXCEPT ![t] =
                       [room |-> r, st |-> "sending", inbox |-> q, msg |-> m,
                        used |-> Cardinality(rooms[r]), snap |-> rooms[r],
                        visited |-> {}, cur |-> c]]
    /\ UNCHANGED <<pc, chat, closeCode, open, draft, frames, rooms, redis_tasks,
                   subs, store, channel, received>>

\* the set the iterator of a running broadcast walks
Live(r) == IF r \in DOMAIN rooms THEN rooms[r] ELSE {}

\* next() of the set iterator after a send: RuntimeError when the set's size
\* differs from the size at iter(); otherwise every element that was there at
\* iter() and still is comes up, an element added meanwhile may or may not
IterNext(t, nxt) ==
    LET r == tasks[t].room
        seen == tasks[t].visited \cup {tasks[t].cur}
        todo == Live(r) \ seen
    IN  IF Cardinality(Live(r)) # tasks[t].used
        THEN nxt = 0 /\ tasks' = [tasks EXCEPT ![t] = Finished(@, "err_setchanged")]
        ELSE \/ /\ nxt \in todo
                /\ tasks' = [tasks EXCEPT ![t].visited = seen, ![t].cur = nxt]
             \/ /\ nxt = 0
                /\ todo \cap tasks[t].snap = {}
                /\ tasks' = [tasks EXCEPT ![t] = Listening(@, @.inbox)]

\* send_text on the current connection returns, the for loop goes on
BroadcastSend(t) ==
    /\ t \in DOMAIN tasks
    /\ tasks[t].st = "sending"
    /\ open[tasks[t].cur]
    /\ received' = [received EXCEPT ![tasks[t].cur] = Append(@, tasks[t].msg)]
    /\ \E nxt \in Conns \cup {0} : IterNext(t, nxt)
    /\ UNCHANGED <<pc, chat, closeCode, open, draft, frames, rooms, redis_tasks,
                   subs, store, channel>>

\* send_text raises on a closed transport: the exception leaves broadcast and
\* listen_to_redis, the task ends, rooms and redis_tasks are as they were
BroadcastSendFail(t) ==
    /\ t \in DOMAIN tasks
    /\ tasks[t].st = "sending"
    /\ ~open[tasks[t].cur]
    /\ tasks' = [tasks EXCEPT ![t] = Finished(@, "err_send")]
    /\ UNCHANGED <<pc, chat, closeCode, open, draft, frames, rooms, redis_tasks,
                   subs, store, channel, received>>

Next ==
    \/ \E c \in Conns :
        \/ RejectToken(c)
        \/ Subscribe(c)
        \/ RejectMember(c)
        \/ connect(c)
        \/ ClientClose(c)
        \/ Receive(c)
        \/ Disconnect(c)
        \/ CommitOk(c)
        \/ CommitFail(c)
        \/ PublishOk(c)
        \/ PublishFail(c)
        \/ HandlerCancelled(c)
    \/ \E t \in TaskIds :
        \/ ListenerSubscribe(t)
        \/ ListenerBrokerError(t)
        \/ BroadcastBegin(t)
        \/ BroadcastSend(t)
        \/ BroadcastSendFail(t)

Spec == Init /\ [][Next]_vars

\* ------------------------------------------------------------ vocabulary
Terminated == {"rejected", "closed", "err_commit", "err_publish", "cancelled", "err_key"}

Registered(c) == \E r \in DOMAIN rooms : c \in rooms[r]

\* the room whose channel a subscription is on
SubRoom(o) == IF o[1] = "endpoint" THEN chat[o[2]] ELSE tasks[o[2]].room

SubsOn(r) == {o \in subs : SubRoom(o) = r}

\* the listener tasks of room r that have not finished
ListenersOf(r) == {t \in DOMAIN tasks : tasks[t].room = r /\ tasks[t].st \in Pending}

Increasing(q) == \A i, j \in DOMAIN q : i < j => q[i].id < q[j].id

Count(q, m) == Cardinality({i \in DOMAIN q : q[i] = m})

\* m is still on its way through a listener of room r
InFlight(r, m) ==
    \E t \in ListenersOf(r) : m \in Range(tasks[t].inbox) \/ tasks[t].msg = m

\* ----------------------------------------------------------------- claims
\* C1: for every room the process holds at most one broker subscription that
\* was opened and not released, counting the endpoint's own subscribe and the
\* listener's.
C1_AtMostOneSubscription ==
    \A r \in Rooms : Cardinality(SubsOn(r)) <= 1

\* C2: a room has an unfinished listener task if and only if its connection
\* set is non-empty; a room with registered connections never has a
\* finished listener.
C2_ListenerIffOccupied ==
    \A r \in Rooms : (Live(r) # {}) <=> (ListenersOf(r) # {})

\* C3: a handler that has ended, whatever the cause, has left no websocket of
\* its own in ConnectionManager.rooms.
C3_DeregisteredOnExit ==
    \A c \in Conns : pc[c] \in Terminated => ~Registered(c)

\* C4: a connection rejected at the handshake is never in rooms and has
\* started no broker subscription.
C4_RejectedLeavesNoTrace ==
    \A c \in Conns : pc[c] = "rejected" => ~Registered(c) /\ EpSub(c) \notin subs

\* C5: every handshake rejection closes the websocket with code 1008.
C5_RejectionIsPolicyViolation ==
    \A c \in Conns : pc[c] = "rejected" => closeCode[c] = PolicyViolation

\* C6: durability before visibility: whatever is about to be published, is on
\* a channel, waits in a listener, is being broadcast or was delivered to a
\* connection is a committed row carrying its id; a frame whose commit failed
\* is nowhere.
C6_DurabilityBeforeVisibility ==
    /\ \A c \in Conns : pc[c] = "publish" => draft[c] \in Range(store)
    /\ \A r \in Rooms : Range(channel[r]) \subseteq Range(store)
    /\ \A t \in DOMAIN tasks :
          /\ Range(tasks[t].inbox) \subseteq Range(store)
          /\ tasks[t].st = "sending" => tasks[t].msg \in Range(store)
    /\ \A c \in Conns : Range(received[c]) \subseteq Range(store)
    /\ \A i \in DOMAIN store : store[i].id = i
    /\ \A c \in Conns : pc[c] = "err_commit" => draft[c] = NoMsg

\* C6 witness: one connection got a payload delivered and the commit of
\* another frame has failed.
C6_Witness ==
    \E c, d \in Conns : received[c] # << >> /\ pc[d] = "err_commit"

\* C7: on every room's channel the payloads appear in commit (id) order, and
\* every connection receives them in that order.
C7_PublishOrderIsCommitOrder ==
    /\ \A r \in Rooms : Increasing(channel[r])
    /\ \A c \in Conns : Increasing(received[c])

\* C8: a failing send_text inside broadcast is caught: the listener is still
\* running afterwards and the failing connection is out of the room's set.
C8_SendFailureIsolated ==
    [][\A t \in DOMAIN tasks :
          BroadcastSendFail(t) =>
              /\ tasks'[t].st \in Subscribed
              /\ ~(\E r \in DOMAIN rooms' : tasks[t].cur \in rooms'[r])]_vars

\* C9: a connect or disconnect interleaved at an awaited send_text never
\* makes the running broadcast fail.
C9_StableSnapshot ==
    \A t \in DOMAIN tasks : tasks[t].st # "err_setchanged"

\* C10: every published message whose sender is still registered, once it is
\* no longer on its way through the room's listener, has been delivered to
\* the sender exactly once.
C10_SenderSeesOwnMessage ==
    \A r \in Rooms : \A i \in DOMAIN channel[r] :
        LET m == channel[r][i]
        IN  (m.sender \in Live(r) /\ ~InFlight(r, m)) => Count(received[m.sender], m) = 1

\* C11: the disconnect that empties a room leaves the room without an entry
\* in redis_tasks and without an unfinished listener, and the connect that
\* finds the room without an entry puts a task that did not exist before, not
\* yet started, into redis_tasks; in every step, so after any number of cycles.
C11_LastDisconnectCancelsNextConnectRestarts ==
    [][\A c \in Conns :
          /\ (Disconnect(c) /\ Live(chat[c]) = {c}) =>
                /\ chat[c] \notin DOMAIN redis_tasks'
                /\ \A t \in DOMAIN tasks' :
                      tasks'[t].room = chat[c] => tasks'[t].st \notin Pending
          /\ (connect(c) /\ Live(chat[c]) = {}) =>
                /\ chat[c] \in DOMAIN redis_tasks'
                /\ redis_tasks'[chat[c]] \notin DOMAIN tasks
                /\ tasks'[redis_tasks'[chat[c]]] = NewTask(chat[c])]_vars

\* C11 witness: a room is in its second occupancy: its first listener was
\* cancelled and a later one is running.
C11_Witness ==
    \E t, u \in DOMAIN tasks :
        /\ t < u
        /\ tasks[t].room = tasks[u].room
        /\ tasks[t].st = "cancelled"
        /\ tasks[u].st \in Pending

\* every chat_endpoint handler has returned or raised
AllHandlersEnded == \A c \in Conns : pc[c] \in Terminated

\* C12: a cancelled listener releases its broker subscription: once every
\* handler has ended, so that no code is left to run for it, no cancelled
\* listen_to_redis task still holds the subscription it opened.
C12_CancelReleasesSubscription ==
    AllHandlersEnded =>
        \A t \in DOMAIN tasks : tasks[t].st = "cancelled" => TaskSub(t) \notin subs

\* ---------------------------------------------------------------- fairness
\* the event loop resumes a handler whose await has a result: the membership
\* lookup, a WebSocketDisconnect, the commit, the publish
HandlerProgress(c) ==
    \/ RejectMember(c)
    \/ connect(c)
    \/ Disconnect(c)
    \/ CommitOk(c)
    \/ CommitFail(c)
    \/ PublishOk(c)
    \/ PublishFail(c)

\* the event loop resumes a listener whose await has a result: the subscribe,
\* a message of the channel, a send_text
ListenerProgress(t) ==
    \/ ListenerSubscribe(t)
    \/ (t \in DOMAIN tasks /\ tasks[t].st = "created" /\ ListenerBrokerError(t))
    \/ BroadcastBegin(t)
    \/ BroadcastSend(t)
    \/ BroadcastSendFail(t)

\* clients arriving, sending and leaving, cancellation and a broker failure
\* under an idle listener are left to the environment
FairSpec ==
    /\ Spec
    /\ \A c \in Conns : WF_vars(HandlerProgress(c))
    /\ \A t \in TaskIds : WF_vars(ListenerProgress(t))

\* room r has registered connections and no unfinished listener
DeadListener(r) == Live(r) # {} /\ ListenersOf(r) = {}

\* C13: a room with registered connections whose listener has stopped does
\* not stay so: it gets a working listener again (the code has no degraded
\* mark that could stand in for it) or ceases to have connections.
C13_DeadListenerRecovers ==
    \A r \in Rooms : DeadListener(r) ~> ~DeadListener(r)

\* C14: when db.commit or redis.publish fails, the failure is reported to the
\* sender: the step in which the handler meets the failure, which is its
\* last, sends a frame to the sender's own websocket.
C14_FailureReportedToSender ==
    [][\A c \in Conns :
          (CommitFail(c) \/ PublishFail(c)) => Len(received'[c]) > Len(received[c])]_vars

\* C15: however the disconnects of a room's connections interleave with each
\* other and with connects, a listener is cancelled only by a step that leaves
\* its room without connections; the disconnect that empties the room finds
\* the room's task in redis_tasks, not yet cancelled, and ends it; and no
\* disconnect fails on a missing redis_tasks entry.
C15_ListenerCancelledOnce ==
    [][/\ \A t \in DOMAIN tasks :
             (tasks[t].st # "cancelled" /\ tasks'[t].st = "cancelled") =>
                 /\ tasks[t].st \in Pending
                 /\ tasks[t].room \notin DOMAIN rooms'
       /\ \A c \in Conns :
             Disconnect(c) =>
                 /\ pc'[c] = "closed"
                 /\ Live(chat[c]) = {c} =>
                       /\ chat[c] \in DOMAIN redis_tasks
                       /\ tasks[redis_tasks[chat[c]]].st # "cancelled"
                       /\ tasks'[redis_tasks[chat[c]]].st \notin Pending]_vars

\* C15 witness: two connections of one room have both disconnected and the
\* room's only listener is cancelled.
C15_Witness ==
    \E c, d \in Conns :
        /\ c # d
        /\ chat[c] = chat[d]
        /\ pc[c] = "closed"
        /\ pc[d] = "closed"
        /\ Len(tasks) = 1
        /\ tasks[1].st = "cancelled"

\* C16: rooms and redis_tasks always have the same keys, no room maps to an
\* empty set, and no disconnect has met a missing redis_tasks entry.
C16_SameKeysNoEmptyRoom ==
    /\ DOMAIN rooms = DOMAIN redis_tasks
    /\ \A r \in DOMAIN rooms : rooms[r] # {}
    /\ \A c \in Conns : pc[c] # "err_key"

\* C16 witness: after connects, a broadcast and a disconnect, one connection
\* has left and another, which got a payload, is registered.
C16_Witness ==
    \E c, d \in Conns :
        pc[c] = "closed" /\ Registered(d) /\ received[d] # << >>

\* what disconnect returns when it changes nothing and raises nothing
Untouched ==
    [rooms |-> rooms, redis_tasks |-> redis_tasks, tasks |-> tasks, raised |-> FALSE]

\* the manager's state of room r: its connection set, its redis_tasks entry
\* and its listener tasks
RoomView(rs, rt, ts, r) ==
    <<IF r \in DOMAIN rs THEN rs[r] ELSE {},
      IF r \in DOMAIN rt THEN <<rt[r]>> ELSE << >>,
      [t \in {u \in DOMAIN ts : ts[u].room = r} |-> ts[t]]>>

\* C17: in every reachable state disconnect(r, c) for a websocket c that is
\* not in r's set (others remain, r has no entry, or c was disconnected
\* before) changes nothing and raises nothing; and a connect or disconnect on
\* one room leaves the set, the redis_tasks entry and the tasks of every
\* other room as they were.
C17_DisconnectNoOpAndFrame ==
    /\ [](\A r \in Rooms : \A c \in Conns : c \notin Live(r) => disconnect(r, c) = Untouched)
    /\ [][\A c \in Conns :
             (connect(c) \/ Disconnect(c)) =>
                 \A r \in Rooms \ {chat[c]} :
                     RoomView(rooms', redis_tasks', tasks', r)
                         = RoomView(rooms, redis_tasks, tasks, r)]_vars

\* C17 witness: a websocket has been disconnected from a room in which
\* another connection remains, so a second disconnect of it would find the
\* room's set without it.
C17_Witness ==
    \E c, d \in Conns :
        pc[c] = "closed" /\ chat[c] = chat[d] /\ d \in Live(chat[d])

\* the rows of sequence q whose sender is c, in the order of q
Mine(q, c) == SelectSeq(q, LAMBDA m : m.sender = c)

\* C18: for every sender the payloads it has published are, in order and
\* each once, a prefix of the rows it has committed; it has at most one
\* committed row not yet published, and only while it awaits that publish or
\* after the handler ended there; it holds a frame for commit only when all
\* its rows are published; nothing of it is on another room's channel.
C18_PerSenderFifo ==
    \A c \in Conns :
        LET mine == Mine(store, c)
            out == IF chat[c] \in Rooms THEN Mine(channel[chat[c]], c) ELSE << >>
        IN  /\ Len(out) <= Len(mine)
            /\ out = SubSeq(mine, 1, Len(out))
            /\ Len(mine) - Len(out) <= 1
            /\ Len(out) < Len(mine) =>
                  \/ pc[c] = "publish" /\ draft[c] = mine[Len(mine)]
                  \/ pc[c] \in {"err_publish", "cancelled"}
            /\ pc[c] = "commit" => draft[c].id = 0 /\ Len(out) = Len(mine)
            /\ \A r \in Rooms \ {chat[c]} : Mine(channel[r], c) = << >>

\* C18 witness: one sender has published two frames.
C18_Witness ==
    \E c \in Conns : chat[c] \in Rooms /\ Len(Mine(channel[chat[c]], c)) = 2
====
